---- MODULE Spec2Model ----
(***************************************************************************)
(* Yugioh TIMELESS tournament format (timeless.py, config.py).             *)
(*                                                                         *)
(* Three specifications over one set of variables:                         *)
(*   SpecSquare    the rejection loop of random_timeless_square(), a       *)
(*                 loop iteration in two steps (draw, check);              *)
(*   SpecTimeless  timeless() from its call of random_timeless_square()    *)
(*                 (any square the loop can return) through the four       *)
(*                 rounds;                                                 *)
(*   Spec          timeless() run on the square printed in the docstring   *)
(*                 of random_timeless_square(), followed by a call of      *)
(*                 calculate_prizes() on the final duelists.  Pairings,    *)
(*                 wins and prizes never read the square, so one square    *)
(*                 is enough wherever the decks are not the subject.       *)
(*                                                                         *)
(* Python lists indexed by slot (duelists, decks, the square) are          *)
(* functions on 0..3; tuples that are unpacked (x, y, z, w) are sequences. *)
(***************************************************************************)
EXTENDS Integers, Sequences, FiniteSets, TLC

VARIABLES
    pc,             \* position in the program
    random_square,  \* random_timeless_square: the last sample drawn
    matchup,        \* timeless: the square
    decks,          \* timeless: the four decks of the chosen format
    duelists,       \* timeless: slot -> [name, wins]
    round_,         \* timeless: loop variable
    is_tied,        \* timeless: set in the final round
    xyzw,           \* timeless: <<x, y, z, w>>
    printed,        \* timeless: the pairings tables printed so far
    winner_xy,      \* timeless: answer to the first prompt of the round
    winner_zw,      \* timeless: answer to the second prompt of the round
    entry_fee,      \* calculate_prizes: argument
    ranked,         \* calculate_prizes: the slots in the order of the argument
    prizes,         \* calculate_prizes: result
    duelist_candidates, \* enter_unique_duelists: the Duelists entered so far
    user_input,     \* supervised_input: the capworded line
    check,          \* supervised_input: the conjunction of the checks so far
    evaluated       \* supervised_input: the conditions evaluated on the line

vars == <<pc, random_square, matchup, decks, duelists, round_, is_tied, xyzw,
          printed, winner_xy, winner_zw, entry_fee, ranked, prizes,
          duelist_candidates, user_input, check, evaluated>>

Slots == 0..3

\* Largest entry fee tried, in units of 5.
MaxFeeUnits == 2

\* Longest line typed at a name prompt.
MaxNameLen == 2

\* Longest line typed at the entry fee prompt.
MaxFeeLen == 4

(***************************************************************************)
(* config.py / the literals of timeless.py                                 *)
(***************************************************************************)
final_round == 3

tied_win_configurations == {<<3, 1, 1, 1>>, <<2, 2, 2, 0>>}

\* Mutant: the second round repeats the pairs of the first.
pairing_configurations_repeated ==
    [r \in 0..2 |-> <<<<0, 1, 2, 3>>, <<1, 0, 3, 2>>, <<3, 0, 1, 2>>>>[r + 1]]

\* Mutant: the third configuration names slot 1 twice and slot 2 never.
pairing_configurations_duplicate ==
    [r \in 0..2 |-> <<<<0, 1, 2, 3>>, <<1, 3, 0, 2>>, <<3, 0, 1, 1>>>>[r + 1]]

pairing_configurations ==
    [r \in 0..2 |-> <<<<0, 1, 2, 3>>, <<1, 3, 0, 2>>, <<3, 0, 1, 2>>>>[r + 1]]

deck_sets ==
    [BASIC |-> [i \in Slots |-> <<"Beast", "Chaos", "Dragon", "Spellcaster">>[i + 1]],
     EXTRA |-> [i \in Slots |-> <<"Dinosaur", "Flip", "Warrior", "Zombie">>[i + 1]]]

prizes_base == <<9, 6, 3, 0>>

\* The tables of the three preliminary rounds.
standings_preliminary ==
    [k \in 0..2 |->
       <<[Wins   |-> <<<<1, 1, 0, 0>>>>,
          Places |-> <<<<1, 1, 3, 3>>>>],
         [Wins   |-> <<<<2, 2, 0, 0>>, <<2, 1, 1, 0>>, <<1, 1, 1, 1>>>>,
          Places |-> <<<<1, 1, 3, 3>>, <<1, 2, 2, 4>>, <<1, 1, 1, 1>>>>],
         [Wins   |-> <<<<3, 2, 1, 0>>, <<2, 2, 1, 1>>, <<3, 1, 1, 1>>, <<2, 2, 2, 0>>>>,
          Places |-> <<<<1, 2, 3, 4>>, <<1, 1, 3, 3>>, <<1, 2, 2, 2>>, <<1, 1, 1, 4>>>>]
       >>[k + 1]]

\* Final round if no tie after the preliminaries.
standings_final_no_tie ==
    [Wins   |-> <<<<4, 2, 2, 0>>, <<4, 2, 1, 1>>, <<3, 3, 2, 0>>,
                  <<3, 3, 1, 1>>, <<3, 2, 2, 1>>>>,
     Places |-> <<<<1, 2, 3, 4>>, <<1, 2, 3, 4>>, <<1, 2, 3, 4>>,
                  <<1, 2, 3, 4>>, <<1, 2, 3, 4>>>>,
     Points |-> <<<<10, 6, 4, 0>>, <<10, 6, 3, 1>>, <<9, 7, 4, 0>>,
                  <<9, 7, 3, 1>>, <<9, 6, 4, 1>>>>]

\* Final round if tie after the preliminaries.
standings_final_tie ==
    [Wins   |-> <<<<4, 2, 1, 1>>, <<3, 3, 2, 0>>, <<3, 2, 2, 1>>>>,
     Places |-> <<<<1, 2, 3, 3>>, <<1, 1, 3, 4>>, <<1, 2, 2, 4>>>>,
     Points |-> <<<<10, 6, 2, 2>>, <<8, 8, 4, 0>>, <<9, 5, 5, 1>>>>]

\* Mutant: the tie table ranks the two 1-win duelists of [4, 2, 1, 1] apart.
STANDING_CONFIGURATIONS_apart ==
    [k \in 0..4 |->
       IF k <= 2 THEN standings_preliminary[k]
       ELSE IF k = 3 THEN standings_final_no_tie
       ELSE [Wins   |-> <<<<4, 2, 1, 1>>, <<3, 3, 2, 0>>, <<3, 2, 2, 1>>>>,
             Places |-> <<<<1, 2, 3, 4>>, <<1, 1, 3, 4>>, <<1, 2, 2, 4>>>>,
             Points |-> <<<<10, 6, 3, 1>>, <<8, 8, 4, 0>>, <<9, 5, 5, 1>>>>]]

\* Mutant: the table of the second round lists a row [2, 0, 0, 0].
STANDING_CONFIGURATIONS_extra_row ==
    [k \in 0..4 |->
       IF k = 1
         THEN [Wins   |-> <<<<2, 2, 0, 0>>, <<2, 1, 1, 0>>, <<1, 1, 1, 1>>, <<2, 0, 0, 0>>>>,
               Places |-> <<<<1, 1, 3, 3>>, <<1, 2, 2, 4>>, <<1, 1, 1, 1>>, <<1, 2, 2, 2>>>>]
       ELSE IF k <= 2 THEN standings_preliminary[k]
       ELSE IF k = 3 THEN standings_final_no_tie
       ELSE standings_final_tie]

STANDING_CONFIGURATIONS ==
    [k \in 0..4 |->
       IF k <= 2 THEN standings_preliminary[k]
       ELSE IF k = 3 THEN standings_final_no_tie
       ELSE standings_final_tie]

(***************************************************************************)
(* random_timeless_square                                                  *)
(***************************************************************************)
\* np.random.permutation(4)
permutation4 == {p \in [Slots -> Slots] : \A i, j \in Slots : i # j => p[i] # p[j]}

\* np.array([np.random.permutation(4) for _ in range(4)])
random_squares == [Slots -> permutation4]

unique_diagonal(sq) == Cardinality({sq[i][i] : i \in Slots}) = 4

unique_antidiagonal(sq) == Cardinality({sq[i][3 - i] : i \in Slots}) = 4

unique_offdiagonal(sq) == Cardinality({sq[0][1], sq[1][0], sq[2][3], sq[3][2]}) = 4

\* Mutant: the three checks ask for 5 distinct values among 4 cells.
is_timeless_five_distinct(sq) ==
    /\ Cardinality({sq[i][i] : i \in Slots}) = 5
    /\ Cardinality({sq[i][3 - i] : i \in Slots}) = 5
    /\ Cardinality({sq[0][1], sq[1][0], sq[2][3], sq[3][2]}) = 5

\* Mutant: the anti-diagonal is not checked.
is_timeless_no_antidiagonal(sq) == unique_diagonal(sq) /\ unique_offdiagonal(sq)

\* Mutant: the off-diagonal cells are not checked.
is_timeless_no_offdiagonal(sq) == unique_diagonal(sq) /\ unique_antidiagonal(sq)

is_timeless(sq) ==
    unique_diagonal(sq) /\ unique_antidiagonal(sq) /\ unique_offdiagonal(sq)

\* The square of the docstring example.
example_square ==
    [i \in Slots |-> [j \in Slots |->
        <<<<2, 0, 1, 3>>, <<3, 1, 2, 0>>, <<2, 0, 3, 1>>, <<1, 3, 2, 0>>>>[i + 1][j + 1]]]

(***************************************************************************)
(* Duelist                                                                 *)
(***************************************************************************)
\* The four names enter_unique_duelists returned, after np.random.permutation.
entered_names == [i \in Slots |-> <<"Johann", "Johann C", "Amadeus", "Falco">>[i + 1]]

Duelist(name, wins) == [name |-> name, wins |-> wins]

Duelist_lt(self, other) == self.wins < other.wins

Duelist_eq_int(self, other) == self.wins = other

Duelist_eq_str(self, other) == self.name = other


(***************************************************************************)
(* Entering names.  A string is a sequence of characters; the characters   *)
(* tried are two spellings of one letter, another letter, a space and a    *)
(* digit.                                                                  *)
(***************************************************************************)
Characters == {"a", "A", "b", " ", "1"}

input_strings == UNION {[1..n -> Characters] : n \in 0..MaxNameLen}

upper(c) == IF c = "a" THEN "A" ELSE IF c = "b" THEN "B" ELSE c

lower(c) == IF c = "A" THEN "a" ELSE IF c = "B" THEN "b" ELSE c

isalpha(s) == s # <<>> /\ \A k \in 1..Len(s) : s[k] \in {"a", "A", "b", "B"}

\* str.capitalize(): the first character in upper case, the rest in lower.
capitalize(w) == [k \in 1..Len(w) |-> IF k = 1 THEN upper(w[k]) ELSE lower(w[k])]

\* The length of the word that s, which does not start with a space,
\* starts with.
first_word(s) ==
    CHOOSE n \in 1..Len(s) :
        /\ \A k \in 1..n : s[k] # " "
        /\ n = Len(s) \/ s[n + 1] = " "

\* str.split(): the words between runs of whitespace.
RECURSIVE split(_)
split(s) ==
    IF s = <<>> THEN <<>>
    ELSE IF Head(s) = " " THEN split(Tail(s))
    ELSE <<SubSeq(s, 1, first_word(s))>>
            \o split(SubSeq(s, first_word(s) + 1, Len(s)))

\* ' '.join(words)
RECURSIVE join(_)
join(words) ==
    IF words = <<>> THEN <<>>
    ELSE IF Len(words) = 1 THEN words[1]
    ELSE words[1] \o <<" ">> \o join(Tail(words))

\* string.capwords(s)
capwords(s) == join([k \in 1..Len(split(s)) |-> capitalize(split(s)[k])])

\* supervised_input: the checks of a name prompt, on the capworded line.
alphabetical(input_string) ==
    isalpha(SelectSeq(input_string, LAMBDA c : c # " "))

less_than_30_characters(input_string) == Len(input_string) < 30

\* Duelist(name): __init__ capwords the name once more.
Duelist_init(name) == Duelist(capwords(name), 0)

count(names, name) == Cardinality({i \in 1..Len(names) : names[i] = name})

duplicate_names_more_than_twice(candidate_names) ==
    {candidate_names[i] : i \in {j \in 1..Len(candidate_names) :
                                   count(candidate_names, candidate_names[j]) > 2}}

duplicate_names(candidate_names) ==
    {candidate_names[i] : i \in {j \in 1..Len(candidate_names) :
                                   count(candidate_names, candidate_names[j]) > 1}}


(***************************************************************************)
(* Entering the entry fee.  The characters tried are four digits, the      *)
(* minus sign, the decimal point and a space.                              *)
(***************************************************************************)
FeeCharacters == {"0", "1", "5", "7", "-", ".", " "}

fee_input_strings == UNION {[1..n -> FeeCharacters] : n \in 0..MaxFeeLen}

Digits == {"0", "1", "5", "7"}

digit(c) == CASE c = "0" -> 0 [] c = "1" -> 1 [] c = "5" -> 5 [] c = "7" -> 7

\* str.strip(), which int() applies to its argument.
RECURSIVE strip(_)
strip(s) ==
    IF s = <<>> THEN s
    ELSE IF Head(s) = " " THEN strip(Tail(s))
    ELSE IF s[Len(s)] = " " THEN strip(SubSeq(s, 1, Len(s) - 1))
    ELSE s

unsigned(s) == IF s # <<>> /\ Head(s) = "-" THEN Tail(s) ELSE s

\* int(input_string) raises ValueError unless the stripped string is an
\* optional sign followed by one or more digits.
int_raises_ValueError(input_string) ==
    LET digits == unsigned(strip(input_string))
    IN  digits = <<>> \/ \E k \in 1..Len(digits) : digits[k] \notin Digits

RECURSIVE natural(_)
natural(digits) ==
    IF digits = <<>> THEN 0
    ELSE 10 * natural(SubSeq(digits, 1, Len(digits) - 1)) + digit(digits[Len(digits)])

\* int(input_string), where it does not raise.
int(input_string) ==
    IF Head(strip(input_string)) = "-"
      THEN 0 - natural(unsigned(strip(input_string)))
      ELSE natural(strip(input_string))

is_string_of_integer(input_string) == ~int_raises_ValueError(input_string)

multiple_of_5(input_string) ==
    int(input_string) % 5 = 0 /\ int(input_string) >= 0

\* supervised_input.condition_checks.get(condition)(input_string), where it
\* returns.
condition_checks(condition, input_string) ==
    CASE condition = "alphabetical" -> alphabetical(input_string)
      [] condition = "less_than_30_characters" -> less_than_30_characters(input_string)
      [] condition = "integer" -> is_string_of_integer(input_string)
      [] condition = "multiple_of_5" -> multiple_of_5(input_string)

\* The check raises instead of returning: only multiple_of_5 calls int()
\* outside a try.
condition_raises(condition, input_string) ==
    condition = "multiple_of_5" /\ int_raises_ValueError(input_string)

\* Mutant: the multiple of 5 is checked before the integer.
entry_fee_conditions_multiple_first ==
    <<"multiple_of_5", "integer", "less_than_30_characters">>

\* enter_tournament_information: the conditions of the entry fee prompt.
entry_fee_conditions ==
    <<"integer", "multiple_of_5", "less_than_30_characters">>


(***************************************************************************)
(* Sorting.  Four elements are below the size at which the sorts partition *)
(* or merge runs, so both are insertion sorts driven by Duelist.__lt__:    *)
(* an element's position is the number of elements that sort before it     *)
(* plus the number of equal elements in front of it.                       *)
(***************************************************************************)
same_wins(d, i, j) == ~Duelist_lt(d[i], d[j]) /\ ~Duelist_lt(d[j], d[i])

\* sorted(duelists, reverse=True): descending, equal elements keep their order
position_descending(d, i) ==
    Cardinality({j \in Slots : Duelist_lt(d[i], d[j])})
    + Cardinality({j \in Slots : j < i /\ same_wins(d, i, j)})

sorted_reverse(d) ==
    [k \in 1..4 |-> d[CHOOSE i \in Slots : position_descending(d, i) = k - 1]]

\* np.argsort(duelists): ascending, equal elements keep their order
position_ascending(d, i) ==
    Cardinality({j \in Slots : Duelist_lt(d[j], d[i])})
    + Cardinality({j \in Slots : j < i /\ same_wins(d, i, j)})

argsort(d) == [k \in Slots |-> CHOOSE i \in Slots : position_ascending(d, i) = k]

\* np.flip
flip(a) == [k \in Slots |-> a[3 - k]]

(***************************************************************************)
(* timeless: one round                                                     *)
(***************************************************************************)
\* Mutant: only the first tied configuration is recognised.
in_tied_win_configurations_first_only(duelists_by_wins) ==
    \A k \in 1..4 : Duelist_eq_int(duelists_by_wins[k], <<3, 1, 1, 1>>[k])

\* duelists_by_wins in tied_win_configurations: list equality, element by
\* element through Duelist.__eq__(int)
in_tied_win_configurations(duelists_by_wins) ==
    \E c \in tied_win_configurations :
        \A k \in 1..4 : Duelist_eq_int(duelists_by_wins[k], c[k])

\* Mutant: the ranking is a stable descending sort (equal wins keep their
\* slot order).
final_order_stable(d) ==
    LET a == [k \in Slots |-> CHOOSE i \in Slots : position_descending(d, i) = k]
    IN  <<a[0], a[1], a[2], a[3]>>

\* Mutant: the ranking is unpacked so that rank 1 meets rank 4 and rank 2
\* meets rank 3.
final_order_rank_1_vs_4(d) ==
    LET a == flip(argsort(d)) IN <<a[0], a[3], a[1], a[2]>>

\* x, y, z, w = np.flip(np.argsort(duelists))
final_order_not_tied(d) ==
    LET a == flip(argsort(d)) IN <<a[0], a[1], a[2], a[3]>>

\* Mutant: the final round looks its decks up off the diagonal, like the
\* preliminary rounds.
final_decks_off_diagonal(m, dk, q) ==
    <<dk[m[q[1]][q[2]]], dk[m[q[2]][q[1]]], dk[m[q[3]][q[4]]], dk[m[q[4]][q[3]]]>>

\* final round: decks[matchup[x, x]], ...
final_decks(m, dk, q) ==
    <<dk[m[q[1]][q[1]]], dk[m[q[2]][q[2]]], dk[m[q[3]][q[3]]], dk[m[q[4]][q[4]]]>>

\* preliminary rounds: decks[matchup[x, y]], decks[matchup[y, x]], ...
preliminary_decks(m, dk, q) ==
    <<dk[m[q[1]][q[2]]], dk[m[q[2]][q[1]]], dk[m[q[3]][q[4]]], dk[m[q[4]][q[3]]]>>

\* pairings: two rows "x (deck_x) VS y (deck_y)", "z (deck_z) VS w (deck_w)";
\* a cell is <<name, deck>>
pairings(d, q, dq) ==
    <<<<<<d[q[1]].name, dq[1]>>, <<d[q[2]].name, dq[2]>>>>,
      <<<<d[q[3]].name, dq[3]>>, <<d[q[4]].name, dq[4]>>>>>>

\* supervised_input(..., 'choose_from', options): an answer is returned only
\* when it is one of the options
supervised_input_choose_from(options) == {options[k] : k \in 1..Len(options)}

\* Mutant: only the answer to the first prompt is looked at.
is_winner_first_prompt_only(duelist, wxy, wzw) == Duelist_eq_str(duelist, wxy)

\* duelists[i] in [winner_xy, winner_zw]: Duelist.__eq__(str)
is_winner(duelist, wxy, wzw) ==
    Duelist_eq_str(duelist, wxy) \/ Duelist_eq_str(duelist, wzw)

\* for i in [x, y, z, w]: if duelists[i] in [...]: duelists[i].wins += 1
RECURSIVE record_wins(_, _, _, _, _)
record_wins(d, q, k, wxy, wzw) ==
    IF k > Len(q)
      THEN d
      ELSE record_wins(
               IF is_winner(d[q[k]], wxy, wzw)
                 THEN [d EXCEPT ![q[k]].wins = @ + 1]
                 ELSE d,
               q, k + 1, wxy, wzw)

(***************************************************************************)
(* calculate_prizes                                                        *)
(***************************************************************************)
\* The entry fees enter_tournament_information accepts: non-negative
\* multiples of 5.
EntryFees == {5 * k : k \in 0..MaxFeeUnits}

\* entry_fee / 5, exact on the accepted fees
base_fee(fee) == fee \div 5

\* Mutant: only the first of the list can earn the bonus.
win_bonus_first_only(ds, fee) ==
    [i \in 1..4 |-> IF i = 1 /\ Duelist_eq_int(ds[i], 4) THEN base_fee(fee) ELSE 0]

\* Mutant: the bonus is tested against 3 - i wins instead of 4 - i.
win_bonus_off_by_one(ds, fee) ==
    [i \in 1..4 |-> IF Duelist_eq_int(ds[i], 3 - (i - 1)) THEN base_fee(fee) ELSE 0]

win_bonus(ds, fee) ==
    [i \in 1..4 |-> IF Duelist_eq_int(ds[i], 4 - (i - 1)) THEN base_fee(fee) ELSE 0]

calculate_prizes(ds, fee) ==
    [i \in 1..4 |-> prizes_base[i] * base_fee(fee) + win_bonus(ds, fee)[i]]

\* The orders in which the duelists can be passed when sorted by descending
\* wins: the order among equal wins is the caller's.
descending_orders(d) ==
    {q \in [1..4 -> Slots] :
        /\ \A k, l \in 1..4 : k # l => q[k] # q[l]
        /\ \A k \in 1..3 : ~Duelist_lt(d[q[k]], d[q[k + 1]])}

(***************************************************************************)
(* Initial states                                                          *)
(***************************************************************************)
NotYet == <<>>

\* Entry of random_timeless_square().
InitSquare ==
    /\ pc = "sampling"
    /\ random_square = NotYet
    /\ matchup = NotYet
    /\ decks = NotYet
    /\ duelists = NotYet
    /\ round_ = 0
    /\ is_tied = FALSE
    /\ xyzw = NotYet
    /\ printed = <<>>
    /\ winner_xy = ""
    /\ winner_zw = ""
    /\ entry_fee = 0
    /\ ranked = NotYet
    /\ prizes = NotYet
    /\ duelist_candidates = <<>>
    /\ user_input = <<>>
    /\ check = TRUE
    /\ evaluated = <<>>

\* Entry of timeless(**enter_tournament_information()).
InitTimeless ==
    /\ pc = "start"
    /\ random_square = NotYet
    /\ matchup = NotYet
    /\ decks \in {deck_sets.BASIC, deck_sets.EXTRA}
    /\ duelists = [i \in Slots |-> Duelist(entered_names[i], 0)]
    /\ round_ = 0
    /\ is_tied = FALSE
    /\ xyzw = NotYet
    /\ printed = <<>>
    /\ winner_xy = ""
    /\ winner_zw = ""
    /\ entry_fee = 0
    /\ ranked = NotYet
    /\ prizes = NotYet
    /\ duelist_candidates = <<>>
    /\ user_input = <<>>
    /\ check = TRUE
    /\ evaluated = <<>>

\* timeless() at the head of its loop, random_timeless_square() having
\* returned the square of its docstring.
Init ==
    /\ pc = "pairings"
    /\ random_square = NotYet
    /\ matchup = example_square
    /\ decks \in {deck_sets.BASIC, deck_sets.EXTRA}
    /\ duelists = [i \in Slots |-> Duelist(entered_names[i], 0)]
    /\ round_ = 0
    /\ is_tied = FALSE
    /\ xyzw = NotYet
    /\ printed = <<>>
    /\ winner_xy = ""
    /\ winner_zw = ""
    /\ entry_fee = 0
    /\ ranked = NotYet
    /\ prizes = NotYet
    /\ duelist_candidates = <<>>
    /\ user_input = <<>>
    /\ check = TRUE
    /\ evaluated = <<>>

(***************************************************************************)
(* Actions                                                                 *)
(***************************************************************************)
\* The while loop of random_timeless_square(), first half of an iteration:
\* a sample is drawn.
SampleSquare ==
    /\ pc = "sampling"
    /\ random_square' \in random_squares
    /\ pc' = "checking"
    /\ UNCHANGED <<duelist_candidates, user_input, check, evaluated>>
    /\ UNCHANGED <<matchup, decks, duelists, round_, is_tied, xyzw, printed,
                   winner_xy, winner_zw, entry_fee, ranked, prizes>>

\* Second half: the sample is returned if it is timeless; otherwise the loop
\* starts over, and the rejected sample is never read again (the next
\* iteration overwrites it), so it is dropped here.
CheckSquare ==
    /\ pc = "checking"
    /\ IF is_timeless(random_square)
         THEN pc' = "returned" /\ UNCHANGED random_square
         ELSE pc' = "sampling" /\ random_square' = NotYet
    /\ UNCHANGED <<duelist_candidates, user_input, check, evaluated>>
    /\ UNCHANGED <<matchup, decks, duelists, round_, is_tied, xyzw, printed,
                   winner_xy, winner_zw, entry_fee, ranked, prizes>>

\* matchup = random_timeless_square(): the call as a whole returns a sample
\* that passed the three checks.
CallRandomTimelessSquare ==
    /\ pc = "start"
    /\ \E sq \in random_squares :
         /\ is_timeless(sq)
         /\ matchup' = sq
    /\ pc' = "pairings"
    /\ UNCHANGED <<duelist_candidates, user_input, check, evaluated>>
    /\ UNCHANGED <<random_square, decks, duelists, round_, is_tied, xyzw, printed,
                   winner_xy, winner_zw, entry_fee, ranked, prizes>>

\* Mutant: the final round ranks with duelists.sort(reverse=True), in place.
DerivePairings_sort_in_place ==
    /\ pc = "pairings"
    /\ IF round_ = final_round
         THEN LET duelists_by_wins == sorted_reverse(duelists)
                  tied == in_tied_win_configurations(duelists_by_wins)
              IN  /\ is_tied' = tied
                  /\ duelists' = [i \in Slots |-> duelists_by_wins[i + 1]]
                  /\ IF tied
                       THEN \E r \in 0..2 : xyzw' = pairing_configurations[r]
                       ELSE xyzw' = final_order_not_tied(duelists')
                  /\ printed' = Append(printed,
                        pairings(duelists', xyzw', final_decks(matchup, decks, xyzw')))
         ELSE /\ xyzw' = pairing_configurations[round_]
              /\ printed' = Append(printed,
                    pairings(duelists, xyzw', preliminary_decks(matchup, decks, xyzw')))
              /\ UNCHANGED <<is_tied, duelists>>
    /\ pc' = "results"
    /\ UNCHANGED <<duelist_candidates, user_input, check, evaluated>>
    /\ UNCHANGED <<random_square, matchup, decks, round_,
                   winner_xy, winner_zw, entry_fee, ranked, prizes>>

\* The first half of the loop body: x, y, z, w, the decks, the printed table.
DerivePairings ==
    /\ pc = "pairings"
    /\ IF round_ = final_round
         THEN LET duelists_by_wins == sorted_reverse(duelists)
                  tied == in_tied_win_configurations(duelists_by_wins)
              IN  /\ is_tied' = tied
                  /\ IF tied
                       THEN \E r \in 0..2 : xyzw' = pairing_configurations[r]
                       ELSE xyzw' = final_order_not_tied(duelists)
                  /\ printed' = Append(printed,
                        pairings(duelists, xyzw', final_decks(matchup, decks, xyzw')))
         ELSE /\ xyzw' = pairing_configurations[round_]
              /\ printed' = Append(printed,
                    pairings(duelists, xyzw', preliminary_decks(matchup, decks, xyzw')))
              /\ UNCHANGED is_tied
    /\ pc' = "results"
    /\ UNCHANGED <<duelist_candidates, user_input, check, evaluated>>
    /\ UNCHANGED <<random_square, matchup, decks, duelists, round_,
                   winner_xy, winner_zw, entry_fee, ranked, prizes>>

\* The second half of the loop body: the two prompts and the recording of
\* the wins; then the next round, or the end of the loop.
RecordResults ==
    /\ pc = "results"
    /\ \E wxy \in supervised_input_choose_from(
                      <<duelists[xyzw[1]].name, duelists[xyzw[2]].name>>),
          wzw \in supervised_input_choose_from(
                      <<duelists[xyzw[3]].name, duelists[xyzw[4]].name>>) :
         /\ winner_xy' = wxy
         /\ winner_zw' = wzw
         /\ duelists' = record_wins(duelists, xyzw, 1, wxy, wzw)
    /\ IF round_ < 3
         THEN round_' = round_ + 1 /\ pc' = "pairings"
         ELSE round_' = round_ /\ pc' = "done"
    /\ UNCHANGED <<duelist_candidates, user_input, check, evaluated>>
    /\ UNCHANGED <<random_square, matchup, decks, is_tied, xyzw, printed,
                   entry_fee, ranked, prizes>>

\* calculate_prizes(duelists sorted by descending wins, entry_fee)
CalculatePrizes ==
    /\ pc = "done"
    /\ \E fee \in EntryFees, order \in descending_orders(duelists) :
         /\ entry_fee' = fee
         /\ ranked' = order
         /\ prizes' = calculate_prizes([k \in 1..4 |-> duelists[order[k]]], fee)
    /\ pc' = "prizes"
    /\ UNCHANGED <<duelist_candidates, user_input, check, evaluated>>
    /\ UNCHANGED <<random_square, matchup, decks, duelists, round_, is_tied, xyzw,
                   printed, winner_xy, winner_zw>>

NextSquare == SampleSquare \/ CheckSquare

NextTimeless == CallRandomTimelessSquare \/ DerivePairings \/ RecordResults

Next == DerivePairings \/ RecordResults \/ CalculatePrizes

SpecSquare == InitSquare /\ [][NextSquare]_vars

SpecTimeless == InitTimeless /\ [][NextTimeless]_vars

Spec == Init /\ [][Next]_vars

\* A whole iteration of the loop of random_timeless_square() in one step:
\* a sample that passes the checks is returned, and an iteration that
\* rejects its sample leaves nothing behind (SampleSquare followed by the
\* rejecting CheckSquare leads back to the same state).
SampleAndCheckSquare ==
    /\ pc = "sampling"
    /\ \E sq \in random_squares :
         IF is_timeless(sq)
           THEN random_square' = sq /\ pc' = "returned"
           ELSE UNCHANGED <<random_square, pc>>
    /\ UNCHANGED <<duelist_candidates, user_input, check, evaluated>>
    /\ UNCHANGED <<matchup, decks, duelists, round_, is_tied, xyzw, printed,
                   winner_xy, winner_zw, entry_fee, ranked, prizes>>

\* The iterations of the loop that return: the sample passes the checks.
ReturnSquare ==
    /\ pc = "sampling"
    /\ pc' = "returned"
    /\ random_square' \in random_squares
    /\ is_timeless(random_square')
    /\ UNCHANGED <<duelist_candidates, user_input, check, evaluated>>
    /\ UNCHANGED <<matchup, decks, duelists, round_, is_tied, xyzw, printed,
                   winner_xy, winner_zw, entry_fee, ranked, prizes>>

\* The loop under fair random sampling: np.random draws every sample with
\* the same probability on every iteration, so an iteration that returns,
\* as long as one is possible, eventually happens.
SpecSquareFair ==
    /\ InitSquare
    /\ [][SampleAndCheckSquare]_vars
    /\ WF_vars(ReturnSquare)

\* Entry of Duelist.enter_unique_duelists().
InitNames ==
    /\ pc = "entering"
    /\ random_square = NotYet
    /\ matchup = NotYet
    /\ decks = NotYet
    /\ duelists = NotYet
    /\ round_ = 0
    /\ is_tied = FALSE
    /\ xyzw = NotYet
    /\ printed = <<>>
    /\ winner_xy = ""
    /\ winner_zw = ""
    /\ entry_fee = 0
    /\ ranked = NotYet
    /\ prizes = NotYet
    /\ duelist_candidates = <<>>
    /\ user_input = <<>>
    /\ check = TRUE
    /\ evaluated = <<>>

candidate_names == [i \in 1..Len(duelist_candidates) |-> duelist_candidates[i].name]

\* One line typed at the prompt of the next duelist: supervised_input
\* capwords it and asks again unless it passes both checks, and the line
\* that passes becomes a Duelist.
EnterDuelist ==
    /\ pc = "entering"
    /\ \E line \in input_strings :
         LET name == capwords(line)
         IN  IF alphabetical(name) /\ less_than_30_characters(name)
               THEN /\ duelist_candidates' =
                         Append(duelist_candidates, Duelist_init(name))
                    /\ pc' = IF Len(duelist_candidates) = 3
                               THEN "counting" ELSE "entering"
               ELSE UNCHANGED <<duelist_candidates, pc>>
    /\ UNCHANGED <<random_square, matchup, decks, duelists, round_, is_tied,
                   xyzw, printed, winner_xy, winner_zw, entry_fee, ranked,
                   prizes, user_input, check, evaluated>>

\* The four are entered: duplicates start the loop again with a new list,
\* otherwise the list is returned.
CheckDuplicateNames ==
    /\ pc = "counting"
    /\ IF duplicate_names(candidate_names) # {}
         THEN duelist_candidates' = <<>> /\ pc' = "entering"
         ELSE pc' = "entered" /\ UNCHANGED duelist_candidates
    /\ UNCHANGED <<random_square, matchup, decks, duelists, round_, is_tied,
                   xyzw, printed, winner_xy, winner_zw, entry_fee, ranked,
                   prizes, user_input, check, evaluated>>

NextNames == EnterDuelist \/ CheckDuplicateNames

SpecNames == InitNames /\ [][NextNames]_vars

\* Entry of supervised_input('Set entry fee: ', entry_fee_conditions).
InitFee ==
    /\ pc = "prompt"
    /\ random_square = NotYet
    /\ matchup = NotYet
    /\ decks = NotYet
    /\ duelists = NotYet
    /\ round_ = 0
    /\ is_tied = FALSE
    /\ xyzw = NotYet
    /\ printed = <<>>
    /\ winner_xy = ""
    /\ winner_zw = ""
    /\ entry_fee = 0
    /\ ranked = NotYet
    /\ prizes = NotYet
    /\ duelist_candidates = <<>>
    /\ user_input = <<>>
    /\ check = TRUE
    /\ evaluated = <<>>

\* user_input = capwords(input(prompt)); check = True
PromptFee ==
    /\ pc = "prompt"
    /\ \E line \in fee_input_strings : user_input' = capwords(line)
    /\ check' = TRUE
    /\ evaluated' = <<>>
    /\ pc' = "conditions"
    /\ UNCHANGED <<random_square, matchup, decks, duelists, round_, is_tied,
                   xyzw, printed, winner_xy, winner_zw, entry_fee, ranked,
                   prizes, duelist_candidates>>

\* One pass of the for loop over the conditions: the check of the next
\* condition, and the break when it is not satisfied.
CheckCondition ==
    /\ pc = "conditions"
    /\ LET condition == entry_fee_conditions[Len(evaluated) + 1]
       IN  IF condition_raises(condition, user_input)
             THEN pc' = "ValueError" /\ UNCHANGED <<check, evaluated>>
             ELSE LET condition_satisfied == condition_checks(condition, user_input)
                  IN  /\ check' = (check /\ condition_satisfied)
                      /\ evaluated' = Append(evaluated, condition)
                      /\ pc' = IF ~condition_satisfied
                                    \/ Len(evaluated') = Len(entry_fee_conditions)
                                 THEN "checked" ELSE "conditions"
    /\ UNCHANGED <<random_square, matchup, decks, duelists, round_, is_tied,
                   xyzw, printed, winner_xy, winner_zw, entry_fee, ranked,
                   prizes, duelist_candidates, user_input>>

\* After the for loop: the line that passed is returned and becomes
\* entry_fee = int(...); otherwise the while loop prompts again, and the
\* locals are assigned anew before they are read.
ReturnOrPromptAgain ==
    /\ pc = "checked"
    /\ IF check
         THEN /\ entry_fee' = int(user_input)
              /\ pc' = "fee_entered"
              /\ UNCHANGED <<user_input, check, evaluated>>
         ELSE /\ pc' = "prompt"
              /\ user_input' = <<>>
              /\ check' = TRUE
              /\ evaluated' = <<>>
              /\ UNCHANGED entry_fee
    /\ UNCHANGED <<random_square, matchup, decks, duelists, round_, is_tied,
                   xyzw, printed, winner_xy, winner_zw, ranked,
                   prizes, duelist_candidates>>

NextFee == PromptFee \/ CheckCondition \/ ReturnOrPromptAgain

SpecFee == InitFee /\ [][NextFee]_vars

(***************************************************************************)
(* Properties                                                              *)
(***************************************************************************)
pairwise_distinct(a, b, c, d) ==
    a # b /\ a # c /\ a # d /\ b # c /\ b # d /\ c # d

\* The four cells of a printed pairings table.
cells(table) == {table[1][1], table[1][2], table[2][1], table[2][2]}

\* The two matches of a printed pairings table, each the set of its two names.
matches(table) ==
    {{table[1][1][1], table[1][2][1]}, {table[2][1][1], table[2][2][1]}}

\* The rounds, among the first n, in which slots i and j met.
meetings(i, j, n) ==
    {r \in 1..n : {duelists[i].name, duelists[j].name} \in matches(printed[r])}

slot_pairs == {p \in SUBSET Slots : Cardinality(p) = 2}

met(p, n) == LET i == CHOOSE i \in p : TRUE
                 j == CHOOSE j \in p : j # i
             IN  Cardinality(meetings(i, j, n))

total_wins ==
    duelists[0].wins + duelists[1].wins + duelists[2].wins + duelists[3].wins

\* The win counts in descending order.
wins_descending == [k \in 1..4 |-> sorted_reverse(duelists)[k].wins]

\* The win counts in the order passed to calculate_prizes.
wins_ranked == [k \in 1..4 |-> duelists[ranked[k]].wins]

\* The final-round standings table selected by the tie state.
final_table == STANDING_CONFIGURATIONS[IF is_tied THEN 4 ELSE 3]

in_final_round == pc = "results" /\ round_ = final_round

\* ---------------------------------------------------------------- C1
\* C1: every square returned by random_timeless_square() has each row a
\* permutation of {0,1,2,3}, and its main diagonal, its anti-diagonal and the
\* cells (0,1),(1,0),(2,3),(3,2) each hold 4 pairwise distinct values.
C1_ReturnedSquare ==
    pc = "returned" =>
        /\ \A i \in Slots : {random_square[i][j] : j \in Slots} = Slots
        /\ pairwise_distinct(random_square[0][0], random_square[1][1],
                             random_square[2][2], random_square[3][3])
        /\ pairwise_distinct(random_square[0][3], random_square[1][2],
                             random_square[2][1], random_square[3][0])
        /\ pairwise_distinct(random_square[0][1], random_square[1][0],
                             random_square[2][3], random_square[3][2])

C1_Witness == pc = "returned" /\ random_square[0][0] = 3 /\ random_square[0][3] = 0

\* ---------------------------------------------------------------- C2
\* C2 as stated: every square returned by random_timeless_square() has each
\* column a permutation of {0,1,2,3}.
C2_ColumnsArePermutations ==
    pc = "returned" =>
        \A j \in Slots : {random_square[i][j] : i \in Slots} = Slots

\* C2 as amended: the columns of a returned square need not be permutations;
\* besides the rows, what holds is that the cells (0,2),(2,0),(1,3),(3,1),
\* the one round quadruple the loop does not check, also hold 4 pairwise
\* distinct values.
C2_FourthQuadruple ==
    pc = "returned" =>
        pairwise_distinct(random_square[0][2], random_square[2][0],
                          random_square[1][3], random_square[3][1])

\* The square of the docstring is returned: its first column is 2, 3, 2, 1.
C2_Witness == pc = "returned" /\ random_square = example_square

\* ---------------------------------------------------------------- C3
\* C3: for every accepted square and every sequence of results, over the four
\* rounds each duelist is assigned each of the four decks in exactly one
\* round.
C3_EachDeckOnce ==
    pc = "done" =>
        \A i \in Slots : \A s \in Slots :
            Cardinality({r \in 1..4 :
                <<duelists[i].name, decks[s]>> \in cells(printed[r])}) = 1

C3_Witness ==
    /\ pc = "done"
    /\ is_tied
    /\ xyzw = pairing_configurations[1]
    /\ \E j \in Slots : {matchup[i][j] : i \in Slots} # Slots

\* ---------------------------------------------------------------- C4
\* C4 as stated: over the four rounds every unordered pair of distinct
\* duelists is matched in exactly one round.
C4_EachPairExactlyOnce ==
    pc = "done" => \A p \in slot_pairs : met(p, 4) = 1

\* C4 as amended: every unordered pair of distinct duelists is matched in
\* exactly one of the three preliminary rounds; the two matches of the final
\* round repeat two of these pairs, so over the four rounds every pair meets
\* once or twice and exactly two pairs meet twice.
C4_OncePlusFinalRematch ==
    pc = "done" =>
        /\ \A p \in slot_pairs : met(p, 3) = 1 /\ met(p, 4) \in {1, 2}
        /\ Cardinality({p \in slot_pairs : met(p, 4) = 2}) = 2

C4_Witness ==
    pc = "done" /\ ~is_tied /\ met({xyzw[1], xyzw[2]}, 4) = 2

\* ---------------------------------------------------------------- C5
\* C5: the four win counts sum to 6 once the third round has been recorded
\* and to 8 once the fourth has.
C5_TotalWins ==
    /\ (round_ = final_round /\ pc \in {"pairings", "results"}) => total_wins = 6
    /\ pc \in {"done", "prizes"} => total_wins = 8

C5_Witness == pc = "done" /\ winner_xy = duelists[xyzw[2]].name /\ total_wins = 8

\* ---------------------------------------------------------------- C6
\* C6 as stated: in the final round without a tie, the slots are ranked by
\* descending wins and the matches are rank 1 against rank 4 and rank 2
\* against rank 3 (for some ranking by descending wins).
C6_Rank1VsRank4 ==
    (in_final_round /\ ~is_tied) =>
        \E q \in descending_orders(duelists) :
            matches(printed[4]) =
                {{duelists[q[1]].name, duelists[q[4]].name},
                 {duelists[q[2]].name, duelists[q[3]].name}}

\* C6 as amended: in the final round without a tie, x, y, z, w are the slots
\* by descending wins and the matches are rank 1 against rank 2 and rank 3
\* against rank 4 (for every ranking by descending wins).
C6_Rank1VsRank2 ==
    (in_final_round /\ ~is_tied) =>
        /\ xyzw \in descending_orders(duelists)
        /\ \A q \in descending_orders(duelists) :
             matches(printed[4]) =
                 {{duelists[q[1]].name, duelists[q[2]].name},
                  {duelists[q[3]].name, duelists[q[4]].name}}

C6_Witness ==
    in_final_round /\ ~is_tied /\ wins_descending = <<3, 2, 1, 0>>

\* ---------------------------------------------------------------- C7
\* C7: after the final round the descending win vector is a 'Wins' row of
\* the final-round standings table selected by the tie state.
C7_WinsInTable ==
    pc = "done" =>
        \E r \in 1..Len(final_table.Wins) : final_table.Wins[r] = wins_descending

C7_Witness == pc = "done" /\ is_tied /\ wins_descending = <<3, 3, 2, 0>>

\* ---------------------------------------------------------------- C8
C8_Case ==
    /\ pc = "prizes"
    /\ entry_fee = 10
    /\ ~is_tied
    /\ wins_ranked = <<4, 2, 2, 0>>

C8_TableRow ==
    \E r \in 1..Len(STANDING_CONFIGURATIONS[3].Wins) :
        /\ STANDING_CONFIGURATIONS[3].Wins[r] = <<4, 2, 2, 0>>
        /\ STANDING_CONFIGURATIONS[3].Points[r] = <<10, 6, 4, 0>>
        /\ STANDING_CONFIGURATIONS[3].Places[r] = <<1, 2, 3, 4>>

\* C8 as stated: entry_fee = 10 and final wins [4,2,2,0] without a tie give
\* the prizes [20,12,6,0]; the table row gives points [10,6,4,0] and places
\* [1,2,3,4].
C8_Prizes_20_12_6_0 ==
    C8_Case => (prizes = <<20, 12, 6, 0>> /\ C8_TableRow)

\* C8 as amended: the prizes are [20,12,8,0] (the duelist third in the list
\* has 2 = 4 - 2 wins and earns the bonus too); points and places as stated.
C8_Prizes_20_12_8_0 ==
    C8_Case => (prizes = <<20, 12, 8, 0>> /\ C8_TableRow)

C8_Witness == C8_Case /\ prizes[1] = 20

\* ---------------------------------------------------------------- C9
\* The duelist in slot i won their match of the round last recorded.
won_last_round(i) == duelists[i].name \in {winner_xy, winner_zw}

\* C9 as stated: a duelist's prize is (entry_fee/5)*[9,6,3,0][rank], plus
\* entry_fee/5 if and only if the duelist won their final-round match.
C9_BonusForFinalWinners ==
    pc = "prizes" =>
        \A k \in 1..4 :
            5 * prizes[k] =
                entry_fee * (prizes_base[k]
                             + (IF won_last_round(ranked[k]) THEN 1 ELSE 0))

\* C9 as amended: a duelist's prize is (entry_fee/5)*[9,6,3,0][rank], plus
\* entry_fee/5 if and only if the duelist at rank i (from 0) has exactly
\* 4 - i wins.
C9_BonusForWinsAtRank ==
    pc = "prizes" =>
        \A k \in 1..4 :
            5 * prizes[k] =
                entry_fee * (prizes_base[k]
                             + (IF duelists[ranked[k]].wins = 5 - k THEN 1 ELSE 0))

\* The winner of a final-round match, first in the list with 3 wins, gets no
\* bonus, and the loser of the other, last with 1 win, gets one.
C9_Witness ==
    /\ pc = "prizes"
    /\ entry_fee = 5
    /\ won_last_round(ranked[1]) /\ prizes[1] = 9
    /\ ~won_last_round(ranked[4]) /\ prizes[4] = 1

\* ---------------------------------------------------------------- C10
\* In row r of the table, positions with equal wins agree in the column.
row_shares(table, column, r) ==
    \A a, b \in 1..4 :
        table.Wins[r][a] = table.Wins[r][b] => column[r][a] = column[r][b]

\* C10 as stated: in both final-round tables, two rank positions of a row
\* with equal wins have the same place and the same points; checked on the
\* row of the selected table that a finished tournament lands on.
C10_TiesShareInBothTables ==
    pc = "done" =>
        \A r \in 1..Len(final_table.Wins) :
            final_table.Wins[r] = wins_descending =>
                /\ row_shares(final_table, final_table.Places, r)
                /\ row_shares(final_table, final_table.Points, r)

\* C10 as amended: this holds in every row of the table for a tie after the
\* preliminaries (STANDING_CONFIGURATIONS[4]); in the table for no tie
\* (STANDING_CONFIGURATIONS[3]) every row has the places [1,2,3,4] and
\* strictly decreasing points, equal wins or not.
C10_TiesShareInTieTable ==
    pc = "done" =>
        /\ \A r \in 1..Len(STANDING_CONFIGURATIONS[4].Wins) :
             /\ row_shares(STANDING_CONFIGURATIONS[4],
                           STANDING_CONFIGURATIONS[4].Places, r)
             /\ row_shares(STANDING_CONFIGURATIONS[4],
                           STANDING_CONFIGURATIONS[4].Points, r)
        /\ \A r \in 1..Len(STANDING_CONFIGURATIONS[3].Wins) :
             /\ STANDING_CONFIGURATIONS[3].Places[r] = <<1, 2, 3, 4>>
             /\ \A a \in 1..3 : STANDING_CONFIGURATIONS[3].Points[r][a]
                                  > STANDING_CONFIGURATIONS[3].Points[r][a + 1]

\* A tournament ends on a row of the tie table that holds equal wins.
C10_Witness == pc = "done" /\ is_tied /\ wins_descending = <<4, 2, 1, 1>>


\* ---------------------------------------------------------------- C11
\* C11: for every final outcome, every descending order of the duelists and
\* every accepted entry fee, the four prizes sum to 4 * entry_fee.
C11_PrizesSumToPool ==
    pc = "prizes" => prizes[1] + prizes[2] + prizes[3] + prizes[4] = 4 * entry_fee

C11_Witness == pc = "prizes" /\ is_tied /\ entry_fee = 10 /\ prizes[1] = 18

\* ---------------------------------------------------------------- C12
\* C12: in every round, both branches of the final round included, x, y, z,
\* w is a permutation of the slots 0..3, so the two printed matches are
\* disjoint pairs that cover the four duelists.
C12_PairingIsPermutation ==
    pc = "results" =>
        /\ {xyzw[k] : k \in 1..4} = Slots
        /\ \A m \in matches(printed[Len(printed)]) : Cardinality(m) = 2
        /\ UNION matches(printed[Len(printed)])
             = {duelists[i].name : i \in Slots}

C12_Witness ==
    in_final_round /\ is_tied /\ xyzw = pairing_configurations[2]

\* ---------------------------------------------------------------- C13
\* C13: once the three preliminary rounds are played, every unordered pair
\* of distinct duelists has met in exactly one of them, whatever the square
\* and the results.
C13_PreliminaryRoundRobin ==
    (round_ = final_round /\ pc = "pairings") =>
        \A p \in slot_pairs : met(p, 3) = 1

C13_Witness ==
    /\ round_ = final_round /\ pc = "pairings"
    /\ matchup # example_square
    /\ duelists[3].wins = 3

\* ---------------------------------------------------------------- C14
\* The win counts are 3,1,1,1 or 2,2,2,0 in some order.
tied_after_preliminaries ==
    \/ \E i \in Slots : /\ duelists[i].wins = 3
                        /\ \A j \in Slots \ {i} : duelists[j].wins = 1
    \/ \E i \in Slots : /\ duelists[i].wins = 0
                        /\ \A j \in Slots \ {i} : duelists[j].wins = 2

\* C14: the tie-break branch of the final round is taken exactly when the
\* win counts after the preliminary rounds are [3,1,1,1] or [2,2,2,0] in
\* descending order, and then the pairing is one of [0,1,2,3], [1,3,0,2],
\* [3,0,1,2].
C14_TieBreakBranch ==
    in_final_round =>
        /\ is_tied <=> tied_after_preliminaries
        /\ is_tied => xyzw \in {<<0, 1, 2, 3>>, <<1, 3, 0, 2>>, <<3, 0, 1, 2>>}

C14_Witness ==
    /\ in_final_round /\ is_tied
    /\ xyzw = <<1, 3, 0, 2>>
    /\ wins_descending = <<2, 2, 2, 0>>


\* ---------------------------------------------------------------- C18
\* C18: in every round of every tournament, for every accepted square, the
\* four decks printed in the round's pairings are pairwise distinct.
C18_DecksDistinctInRound ==
    \A r \in 1..Len(printed) :
        Cardinality({c[2] : c \in cells(printed[r])}) = 4

\* The second round (pairs (1,3),(0,2), cells the loop does not check) is
\* printed for a square whose columns are not permutations.
C18_Witness ==
    /\ pc = "results" /\ round_ = 1
    /\ \E j \in Slots : {matchup[i][j] : i \in Slots} # Slots

\* ---------------------------------------------------------------- C19
\* x, y, z, w list the slots by descending wins.
ranked_by_descending_wins ==
    \A k \in 1..3 : duelists[xyzw[k]].wins >= duelists[xyzw[k + 1]].wins

\* C19 as stated: in the final round without a tie, among slots with equal
\* wins the slot with the smaller index is ranked first.
C19_SmallerSlotFirst ==
    (in_final_round /\ ~is_tied) =>
        /\ ranked_by_descending_wins
        /\ \A k, l \in 1..4 :
             (k < l /\ duelists[xyzw[k]].wins = duelists[xyzw[l]].wins)
                 => xyzw[k] < xyzw[l]

\* C19 as amended: among slots with equal wins the slot with the larger
\* index is ranked first (the ascending argsort keeps equal slots in slot
\* order, and np.flip reverses it).
C19_LargerSlotFirst ==
    (in_final_round /\ ~is_tied) =>
        /\ ranked_by_descending_wins
        /\ \A k, l \in 1..4 :
             (k < l /\ duelists[xyzw[k]].wins = duelists[xyzw[l]].wins)
                 => xyzw[k] > xyzw[l]

C19_Witness ==
    in_final_round /\ ~is_tied /\ wins_descending = <<2, 2, 1, 1>>


\* ---------------------------------------------------------------- C20
\* The duelists every choice of answers leaves after a round paired as q.
round_outcomes(d, q) ==
    {record_wins(d, q, 1, wxy, wzw) :
        wxy \in supervised_input_choose_from(<<d[q[1]].name, d[q[2]].name>>),
        wzw \in supervised_input_choose_from(<<d[q[3]].name, d[q[4]].name>>)}

\* The duelists every sequence of answers leaves after the first n rounds.
RECURSIVE after_rounds(_)
after_rounds(n) ==
    IF n = 0
      THEN {[i \in Slots |-> Duelist(entered_names[i], 0)]}
      ELSE UNION {round_outcomes(d, pairing_configurations[n - 1]) :
                     d \in after_rounds(n - 1)}

wins_rows(k) ==
    {STANDING_CONFIGURATIONS[k].Wins[r] : r \in 1..Len(STANDING_CONFIGURATIONS[k].Wins)}

\* C20: after each preliminary round r in {0,1,2} the descending win vector
\* is a row of STANDING_CONFIGURATIONS[r].Wins, and every row listed there
\* is the descending win vector left by some sequence of results.
C20_PreliminaryRows ==
    (round_ \in 1..3 /\ pc \in {"pairings", "results"}) =>
        /\ wins_descending \in wins_rows(round_ - 1)
        /\ \A row \in wins_rows(round_ - 1) :
             \E d \in after_rounds(round_) :
                 [k \in 1..4 |-> sorted_reverse(d)[k].wins] = row

C20_Witness ==
    round_ = 2 /\ pc = "pairings" /\ wins_descending = <<1, 1, 1, 1>>


\* ---------------------------------------------------------------- C16
\* Exactly one of the two duelists of a match gains exactly one win.
one_gains_a_win(a, b) ==
    \/ /\ duelists'[a].wins = duelists[a].wins + 1
       /\ duelists'[b].wins = duelists[b].wins
    \/ /\ duelists'[a].wins = duelists[a].wins
       /\ duelists'[b].wins = duelists[b].wins + 1

\* C16: every win count starts at 0; recording a round adds exactly 1 to
\* exactly one duelist of each of the two matches and leaves the other two
\* counts as they are; no count ever exceeds 4.
C16_OneWinPerMatch ==
    /\ \A i \in Slots : duelists[i].wins = 0
    /\ [][pc = "results" =>
            /\ one_gains_a_win(xyzw[1], xyzw[2])
            /\ one_gains_a_win(xyzw[3], xyzw[4])]_vars
    /\ [](\A i \in Slots : duelists[i].wins \in 0..4)

C16_Witness ==
    pc = "done" /\ \E i \in Slots : duelists[i].wins = 4

\* ---------------------------------------------------------------- C17
\* C17: under fair random sampling the loop of random_timeless_square()
\* eventually accepts a sample and returns.
C17_Returns == <>(pc = "returned")

C17_Witness == pc = "returned" /\ unique_offdiagonal(random_square)


\* C15: enter_unique_duelists returns four Duelists whose names are
\* normalized and pairwise distinct, and whenever a name occurs twice among
\* the four entered, the four are discarded and entry starts again.
C15_UniqueOrRepeated ==
    /\ [](pc = "entered" =>
            /\ Len(duelist_candidates) = 4
            /\ \A i \in 1..4 : capwords(candidate_names[i]) = candidate_names[i]
            /\ \A i, j \in 1..4 : i # j => candidate_names[i] # candidate_names[j])
    /\ [][(/\ pc = "counting"
           /\ \E i, j \in 1..4 : i # j /\ candidate_names[i] = candidate_names[j])
          => (duelist_candidates' = <<>> /\ pc' = "entering")]_vars

C15_Witness ==
    /\ pc = "entered"
    /\ candidate_names[1] = <<"A">>
    /\ candidate_names[2] = <<"A", "a">>
    /\ candidate_names[3] = <<"B">>


\* ---------------------------------------------------------------- C21
\* C21: for each of the five win rows of the no-tie final-round table,
\* calculate_prizes applied to duelists with those wins in that order and
\* entry_fee = 5 returns the row's points; the prizes of a finished
\* tournament without a tie and with entry_fee = 5 are the points of the row
\* of its wins.
C21_PointsArePrizes ==
    (pc = "prizes" /\ ~is_tied /\ entry_fee = 5) =>
        /\ Len(standings_final_no_tie.Wins) = 5
        /\ \A r \in 1..5 :
             calculate_prizes(
                 [k \in 1..4 |-> Duelist(duelists[ranked[k]].name,
                                         standings_final_no_tie.Wins[r][k])],
                 5) = standings_final_no_tie.Points[r]
        /\ \E r \in 1..5 :
             /\ standings_final_no_tie.Wins[r] = wins_ranked
             /\ standings_final_no_tie.Points[r] = prizes

C21_Witness ==
    /\ pc = "prizes"
    /\ ~is_tied
    /\ entry_fee = 5
    /\ wins_ranked = <<3, 2, 2, 1>>
    /\ prizes = <<9, 6, 4, 1>>


\* ---------------------------------------------------------------- C22
\* C22: once generated the square is never changed, the duelists stay in
\* their slots, deriving a round's pairing (the ranking by wins of the final
\* round included) leaves the duelists, their wins and the square as they
\* are, and wins change only when a round's results are recorded.
C22_PairingOnlyReads ==
    [][/\ pc # "start" => matchup' = matchup
       /\ \A i \in Slots : duelists'[i].name = duelists[i].name
       /\ pc = "pairings" => (duelists' = duelists /\ matchup' = matchup)
       /\ duelists' # duelists => pc = "results"]_vars

\* The final round paired by rank, slot 3 first, with every duelist still in
\* the slot of entry.
C22_Witness ==
    /\ in_final_round
    /\ ~is_tied
    /\ xyzw[1] = 3
    /\ \A i \in Slots : duelists[i].name = entered_names[i]
    /\ matchup # example_square


\* ---------------------------------------------------------------- C23
\* The conditions evaluated on the line are the first ones of the list, in
\* the order of the list.
evaluated_in_list_order ==
    /\ Len(evaluated) <= Len(entry_fee_conditions)
    /\ \A k \in 1..Len(evaluated) : evaluated[k] = entry_fee_conditions[k]

\* C23: supervised_input returns a line only if it satisfies every listed
\* condition and prompts again otherwise; the conditions are evaluated in
\* list order up to the first that fails, so that at the entry fee prompt
\* multiple_of_5 is never evaluated on a line that is not an integer (no
\* ValueError), and the accepted fee is a non-negative multiple of 5:
\* 15.5, -10 and 7 are rejected, 0 and 100 accepted.
C23_EntryFeePrompt ==
    /\ [](/\ pc # "ValueError"
          /\ evaluated_in_list_order
          /\ \A k \in 1..(Len(evaluated) - 1) :
               condition_checks(evaluated[k], user_input)
          /\ (\E k \in 1..Len(evaluated) : evaluated[k] = "multiple_of_5")
               => is_string_of_integer(user_input)
          /\ pc = "checked" =>
               /\ check = (\A k \in 1..Len(evaluated) :
                             condition_checks(evaluated[k], user_input))
               /\ check => Len(evaluated) = Len(entry_fee_conditions)
               /\ user_input \in {<<"1", "5", ".", "5">>, <<"-", "1", "0">>, <<"7">>}
                    => ~check
               /\ user_input \in {<<"0">>, <<"1", "0", "0">>} => check
          /\ pc = "fee_entered" =>
               /\ \A k \in 1..Len(entry_fee_conditions) :
                    condition_checks(entry_fee_conditions[k], user_input)
               /\ entry_fee = int(user_input)
               /\ entry_fee >= 0
               /\ entry_fee % 5 = 0)
    /\ [][pc = "checked" =>
            IF check THEN pc' = "fee_entered" /\ user_input' = user_input
                     ELSE pc' = "prompt"]_vars

\* 15.5 rejected by the first condition, the second never evaluated.
C23_Witness ==
    /\ pc = "checked"
    /\ user_input = <<"1", "5", ".", "5">>
    /\ evaluated = <<"integer">>
    /\ ~check

====
